---- MODULE Spec2Model ----
(***************************************************************************)
(* Swap-cycle runner of the three volume bots (polygon-bot, solana-bot,    *)
(* solana-bot-ultra).  One run of `run(num_cycles, use_full_balance,       *)
(* fixed_amount)` is modelled step by step: the startup checks, the cycle  *)
(* loop, the swap call with its quote / submit / confirmation steps, the   *)
(* retry wrapper of the ultra variant, and the final report.               *)
(*                                                                         *)
(* Amounts.  On-chain balances are integers in base units (10^-6 token).   *)
(* The bots compute with floats in token units ("ui" amounts); the model   *)
(* holds a ui amount as an integer number of hundredths of a base unit     *)
(* (10^-8 token), so that `balance * 0.99`, `balance * 0.999` and the      *)
(* truncation `int(amount * 1e6)` are computed, not assumed.               *)
(***************************************************************************)
EXTENDS Integers, Sequences, FiniteSets, TLC

\* ------------------------------------------------------------------ bounds
MaxCycles == 2          \* num_cycles ranges over 1..MaxCycles
PollBudget == 2         \* confirmation polls that fit in the timeout window
MaxStale == 1           \* abandoned transactions the chain holds unresolved at a time
MockCycles == 3         \* num_cycles ranges over 1..MockCycles on the always-succeeding gateway
LongRunCycles == 50     \* num_cycles of the longest run
LongRunRecords == 2     \* swaps the gateway of the long runs lets through

\* ------------------------------------------------------- program constants
MAX_RETRIES == 3        \* self.max_retries (ultra)
DECIMALS == 1000000     \* 10 ** 6 base units per token
DEFAULT_FEE_LAMPORTS == 5000   \* fee_lamports default estimate
PROGRESS_EVERY == 10    \* `if (i + 1) % 10 == 0` (polygon, solana)
PROGRESS_EVERY_ULTRA == 50     \* `if (i + 1) % 50 == 0` (ultra)

Variants == {"polygon", "solana", "ultra"}

\* ui amount (10^-8 token) of a number of base units: balance / 10**decimals
ToUi(b) == b * 100

\* int(amount * 1e6): truncation toward zero of a ui amount to base units
ToBaseUnits(a) == IF a >= 0 THEN a \div 100 ELSE -((-a) \div 100)

\* x * num / den for x >= 0 without leaving the 32-bit range
MulFrac(x, num, den) == (x \div den) * num + ((x % den) * num) \div den

Min(a, b) == IF a <= b THEN a ELSE b

\* the minimum taken for the dust threshold
MIN_START_BALANCE_Dust == ToUi(DECIMALS) \div 10

\* `if usdc_balance < 1.0` of run: the configured minimum, as a ui amount
MIN_START_BALANCE == ToUi(DECIMALS)

\* DustThreshold of a loop without the dust check
DustThreshold_Zero(v) == 0

\* dust threshold of the cycle loop: 0.1 (polygon, solana), 0.01 (ultra)
DustThreshold(v) == IF v = "ultra" THEN ToUi(DECIMALS) \div 100 ELSE ToUi(DECIMALS) \div 10

\* Leg1Amount taking the fixed amount as it is, without the cap
Leg1Amount_Uncapped(v, full, fixed, bal) ==
    IF full
    THEN IF v = "ultra" THEN MulFrac(bal, 999, 1000) ELSE bal
    ELSE fixed

\* leg-1 size of the cycle loop
Leg1Amount(v, full, fixed, bal) ==
    IF full
    THEN IF v = "ultra" THEN MulFrac(bal, 999, 1000) ELSE bal
    ELSE Min(fixed, bal)

\* Leg2Amount taking the whole balance where leg 1 does
Leg2Amount_Full(v, bal) ==
    IF v = "ultra" THEN MulFrac(bal, 999, 1000) ELSE bal

\* leg-2 size of the cycle loop
Leg2Amount(v, bal) ==
    IF v = "ultra" THEN MulFrac(bal, 999, 1000) ELSE MulFrac(bal, 99, 100)

VARIABLES
    variant,            \* which script runs
    num_cycles,         \* run argument
    use_full_balance,   \* run argument
    fixed_amount,       \* run argument (ui amount)
    swap_fee,           \* gateway: base units kept by the pool per swap
    start_b,            \* chain: balance of asset B when the run starts, base units
    balA, balB,         \* on-chain balances of asset A and B, base units
    pc,                 \* position of the run
    i,                  \* loop index: iterations finished so far
    leg,                \* 0 outside a swap call, else 1 or 2
    successful_cycles, failed_cycles,
    swap_amount,        \* argument of the swap call in progress (ui amount)
    result,             \* what the swap call returned: "none", "tuple", "None"
    attempt,            \* ultra: index of the attempt in progress (0-based)
    expected_out,       \* quoted output of the attempt in progress, base units
    elapsed,            \* polls done in the confirmation loop in progress
    total_volume, total_fees_paid, transaction_count, transactions,
    retry_count, initial_usdc_balance,
    reports,            \* report files written
    capital_lost,       \* _generate_report: initial minus final balance of A (ui amount)
    progress_reports,   \* progress summaries printed by the loop
    swap_calls,         \* history: swap calls issued by run
    legs_confirmed,     \* history: legs of the current cycle the swap call saw confirmed
    stranded,           \* history: some cycle had leg 1 return a result and leg 2 return None
    started,            \* self.start_time is set: the startup checks have passed
    executed,           \* chain: swaps executed so far
    tx_status,          \* chain: the transaction of the attempt in progress
    stale               \* chain: transactions abandoned by a timeout, still unresolved

vars == <<variant, num_cycles, use_full_balance, fixed_amount, swap_fee, start_b, balA, balB,
          pc, i, leg, successful_cycles, failed_cycles, swap_amount, result, attempt,
          expected_out, elapsed, total_volume, total_fees_paid, transaction_count,
          transactions, retry_count, initial_usdc_balance, reports, capital_lost,
          progress_reports, swap_calls, legs_confirmed, stranded, started, executed,
          tx_status, stale>>

config == <<variant, num_cycles, use_full_balance, fixed_amount, swap_fee, start_b>>
chain == <<balA, balB, executed>>
setup == <<initial_usdc_balance, started>>
stats == <<total_volume, total_fees_paid, transaction_count, transactions>>
counters == <<i, successful_cycles, failed_cycles>>
report == <<reports, capital_lost, progress_reports>>
swapvars == <<swap_amount, attempt, expected_out, elapsed>>

\* ------------------------------------------------------------ input sets
\* fixed_amount values tried in fixed-amount mode (ui amounts): negative,
\* zero, below the start balance, above every balance
FixedAmounts == {-ToUi(DECIMALS) \div 2, 0, 6 * (ToUi(DECIMALS) \div 10), 10 * ToUi(DECIMALS)}

\* starting balances <<A, B>> (base units): asset A below the minimum and at
\* it, asset B absent or present
StartBalances == {<<DECIMALS \div 2, 0>>, <<DECIMALS, 0>>, <<DECIMALS, 3 * (DECIMALS \div 10)>>}

\* what the pool keeps of a swap (base units): a fixed fee F
SwapFees == {DECIMALS \div 1000}

\* fee reported for a confirmed transaction
FeeChoices(v) ==
    IF v = "polygon" THEN {21000} ELSE {DEFAULT_FEE_LAMPORTS}

\* ---------------------------------------------------- balance oracle
\* get_token_balance (solana, ultra) returns the balance, or 0.0 when the
\* query raises; get_balance (polygon) returns the balance or raises
QueryResults(v, bal) == IF v = "polygon" THEN {ToUi(bal)} ELSE {ToUi(bal), 0}

\* QueryMayRaise of a balance query that raises in the Solana variants too
QueryMayRaise_Always(v) == TRUE

QueryMayRaise(v) == v = "polygon"

\* ---------------------------------------------------- exchange gateway
\* QuoteOut of a pool that keeps nothing
QuoteOut_NoFee(lamports, fee) == lamports

\* outAmount quoted for an input of `lamports` base units at rate 1:1
QuoteOut(lamports, fee) == IF lamports > fee THEN lamports - fee ELSE 0

\* the chain executes a swap of `amt` base units in direction `dir`
CanExecute(dir, amt) == IF dir = 1 THEN balA >= amt ELSE balB >= amt

Execute(dir, amt, out) ==
    /\ IF dir = 1
       THEN balA' = balA - amt /\ balB' = balB + out
       ELSE balB' = balB - amt /\ balA' = balA + out
    /\ executed' = executed + 1

\* the state after construction, for run arguments and starting balances
\* drawn from the given sets
InitWith(cycles, fixed, balances) ==
    /\ variant \in Variants
    /\ num_cycles \in cycles
    /\ use_full_balance \in BOOLEAN
    /\ fixed_amount \in fixed
    /\ use_full_balance => fixed_amount = 10 * ToUi(DECIMALS)
    /\ swap_fee \in SwapFees
    /\ \E b \in balances : balA = b[1] /\ balB = b[2] /\ start_b = b[2]
    /\ pc = "start"
    /\ i = 0 /\ leg = 0
    /\ successful_cycles = 0 /\ failed_cycles = 0
    /\ swap_amount = 0 /\ result = "none" /\ attempt = 0
    /\ expected_out = 0 /\ elapsed = 0
    /\ total_volume = 0 /\ total_fees_paid = 0
    /\ transaction_count = 0 /\ transactions = <<>>
    /\ retry_count = 0 /\ initial_usdc_balance = 0
    /\ reports = 0 /\ capital_lost = 0 /\ progress_reports = 0
    /\ swap_calls = 0 /\ legs_confirmed = 0 /\ stranded = FALSE
    /\ started = FALSE /\ executed = 0
    /\ tx_status = "none" /\ stale = <<>>

Init == InitWith(1..MaxCycles, FixedAmounts, StartBalances)

\* ---------------------------------------------------------------- run
\* An exception that leaves run: main prints "Fatal error" and the process ends
Abort ==
    /\ pc' = "aborted"
    /\ UNCHANGED <<config, chain, counters, leg, swapvars, result, stats,
                   retry_count, setup, report, swap_calls, legs_confirmed, stranded,
                   tx_status, stale>>

\* Startup entering the loop without the approvals
Startup_SkipApprovals ==
    /\ pc = "start"
    /\ \/ QueryMayRaise(variant) /\ Abort
       \/ \E usdc_balance \in QueryResults(variant, balA) :
            /\ IF usdc_balance < MIN_START_BALANCE
               THEN pc' = "returned" /\ UNCHANGED <<initial_usdc_balance, started>>
               ELSE /\ initial_usdc_balance' = usdc_balance
                    /\ pc' = "loop"
                    /\ started' = TRUE
            /\ UNCHANGED <<config, chain, counters, leg, swapvars, result, stats,
                           retry_count, report, swap_calls, legs_confirmed, stranded, tx_status, stale>>

\* run: the balance check before the loop
Startup ==
    /\ pc = "start"
    /\ \/ QueryMayRaise(variant) /\ Abort
       \/ \E usdc_balance \in QueryResults(variant, balA) :
            /\ IF usdc_balance < MIN_START_BALANCE
               THEN pc' = "returned" /\ UNCHANGED <<initial_usdc_balance, started>>
               ELSE /\ initial_usdc_balance' = usdc_balance
                    /\ pc' = IF variant = "polygon" THEN "approve_a" ELSE "loop"
                    /\ started' = (variant /= "polygon")
            /\ UNCHANGED <<config, chain, counters, leg, swapvars, result, stats,
                           retry_count, report, swap_calls, legs_confirmed, stranded, tx_status, stale>>

\* approve_token: True, False, or the allowance query raises outside the try
ApproveStep(here, next) ==
    /\ pc = here
    /\ \/ Abort
       \/ /\ \E ok \in BOOLEAN :
                /\ pc' = IF ok THEN next ELSE "returned"
                /\ started' = (ok /\ next = "loop")
          /\ UNCHANGED <<config, chain, counters, leg, swapvars, result, stats,
                         retry_count, initial_usdc_balance, report, swap_calls,
                         legs_confirmed, stranded, tx_status, stale>>

ApproveA == ApproveStep("approve_a", "approve_b")

ApproveB == ApproveStep("approve_b", "loop")

\* CallSwap issuing every call in the B-to-A direction
CallSwap_AlwaysLeg2(l, amount) ==
    /\ leg' = 2
    /\ swap_amount' = amount
    /\ attempt' = 0
    /\ result' = "none"
    /\ swap_calls' = swap_calls + 1
    /\ pc' = "swap"

\* run calls the swap function for leg `l` with `amount`
CallSwap(l, amount) ==
    /\ leg' = l
    /\ swap_amount' = amount
    /\ attempt' = 0
    /\ result' = "none"
    /\ swap_calls' = swap_calls + 1
    /\ pc' = "swap"

\* the locals of a finished swap call are gone
NoSwap == swap_amount' = 0 /\ attempt' = 0 /\ expected_out' = 0 /\ elapsed' = 0

\* EndCycle counting a successful cycle as failed and a failed one as successful
EndCycle_Inverted(success) ==
    /\ i' = i + 1
    /\ successful_cycles' = IF success THEN successful_cycles ELSE successful_cycles + 1
    /\ failed_cycles' = IF success THEN failed_cycles + 1 ELSE failed_cycles
    /\ leg' = 0
    /\ result' = "none"
    /\ pc' = "loop"

\* one cycle ends: `continue` or the end of the loop body
EndCycle(success) ==
    /\ i' = i + 1
    /\ successful_cycles' = IF success THEN successful_cycles + 1 ELSE successful_cycles
    /\ failed_cycles' = IF success THEN failed_cycles ELSE failed_cycles + 1
    /\ leg' = 0
    /\ result' = "none"
    /\ pc' = "loop"

\* top of the loop body: balance of A, dust check, leg-1 size, leg-1 call
CycleBegin ==
    /\ pc = "loop" /\ i < num_cycles
    /\ \/ QueryMayRaise(variant) /\ Abort
       \/ \E usdc_balance \in QueryResults(variant, balA) :
            /\ legs_confirmed' = 0
            /\ IF usdc_balance < DustThreshold(variant)
               THEN /\ EndCycle(FALSE)
                    /\ UNCHANGED <<swapvars, swap_calls>>
               ELSE /\ CallSwap(1, Leg1Amount(variant, use_full_balance,
                                              fixed_amount, usdc_balance))
                    /\ UNCHANGED <<counters, expected_out, elapsed>>
            /\ UNCHANGED <<config, chain, stats, retry_count,
                           setup, report, stranded, tx_status, stale>>

\* the cycles between two progress summaries
ProgressEvery(v) == IF v = "ultra" THEN PROGRESS_EVERY_ULTRA ELSE PROGRESS_EVERY

\* "Progress update every 10 cycles" at the end of the loop body
ProgressUpdate ==
    progress_reports' = IF (i + 1) % ProgressEvery(variant) = 0
                        THEN progress_reports + 1
                        ELSE progress_reports

\* run handles what the swap call returned
LegReturn ==
    /\ pc = "ret"
    /\ \/ /\ result = "None"
          /\ EndCycle(FALSE)
          /\ NoSwap
          /\ stranded' = (stranded \/ leg = 2)
          /\ UNCHANGED <<swap_calls, progress_reports>>
       \/ /\ result = "tuple" /\ leg = 2
          /\ EndCycle(TRUE)
          /\ ProgressUpdate
          /\ NoSwap
          /\ UNCHANGED <<swap_calls, stranded>>
       \/ /\ result = "tuple" /\ leg = 1
          /\ \E b_balance \in QueryResults(variant, balB) :
                CallSwap(2, Leg2Amount(variant, b_balance))
          /\ expected_out' = 0 /\ elapsed' = 0
          /\ UNCHANGED <<counters, progress_reports, stranded>>
    /\ UNCHANGED <<config, chain, stats, retry_count, setup,
                   reports, capital_lost, legs_confirmed, tx_status, stale>>

\* leg 2 of polygon: get_balance of asset B raises
Leg2QueryRaises ==
    /\ pc = "ret" /\ result = "tuple" /\ leg = 1
    /\ QueryMayRaise(variant)
    /\ Abort

\* the loop is over: _generate_report queries the final balances and writes the file
GenerateReport ==
    /\ pc = "loop" /\ i = num_cycles
    /\ \/ QueryMayRaise(variant) /\ Abort
       \/ /\ \E final_usdc \in QueryResults(variant, balA) :
                capital_lost' = initial_usdc_balance - final_usdc
          /\ reports' = reports + 1
          /\ pc' = "done"
          /\ UNCHANGED <<config, chain, counters, leg, swapvars, result, stats,
                         retry_count, setup, progress_reports, swap_calls, legs_confirmed, stranded,
                         tx_status, stale>>

\* --------------------------------------------------------- the swap call
\* The swap call returns `r` to run
Return(r) ==
    /\ result' = r
    /\ pc' = "ret"

\* Raise counting the attempt that gives up as a retry too
Raise_CountLast ==
    IF variant = "ultra" /\ attempt < MAX_RETRIES - 1
    THEN /\ retry_count' = retry_count + 1
         /\ attempt' = attempt + 1
         /\ pc' = "swap"
         /\ UNCHANGED result
    ELSE /\ Return("None")
         /\ retry_count' = retry_count + (IF variant = "ultra" THEN 1 ELSE 0)
         /\ UNCHANGED attempt

\* Raise retrying once more than max_retries allows (`<=` for `<`)
Raise_OneMore ==
    IF variant = "ultra" /\ attempt <= MAX_RETRIES - 1
    THEN /\ retry_count' = retry_count + 1
         /\ attempt' = attempt + 1
         /\ pc' = "swap"
         /\ UNCHANGED result
    ELSE /\ result' = "None"
         /\ pc' = "ret"
         /\ UNCHANGED <<retry_count, attempt>>

\* Raise retrying the same attempt index again and again
Raise_SameAttempt ==
    IF variant = "ultra"
    THEN /\ pc' = "swap"
         /\ UNCHANGED <<result, retry_count, attempt>>
    ELSE /\ Return("None")
         /\ UNCHANGED <<retry_count, attempt>>

\* An exception inside the swap call.  polygon, solana: `except` returns None.
\* ultra: `except` of the attempt loop: retry while attempt < max_retries - 1
\* (retry_count += 1, sleep, next attempt), else return None.
Raise ==
    IF variant = "ultra" /\ attempt < MAX_RETRIES - 1
    THEN /\ retry_count' = retry_count + 1
         /\ attempt' = attempt + 1
         /\ pc' = "swap"
         /\ UNCHANGED result
    ELSE /\ Return("None")
         /\ UNCHANGED <<retry_count, attempt>>

\* Abandon that goes on while the transaction is still held as awaited
Abandon_KeepTx ==
    /\ tx_status = "pending" => Len(stale) < MaxStale
    /\ stale' = IF tx_status = "pending"
                THEN Append(stale, [dir |-> leg, amt |-> ToBaseUnits(swap_amount),
                                    out |-> expected_out])
                ELSE stale
    /\ tx_status' = tx_status

\* the transaction of this attempt is given up: unresolved, it stays on the chain
Abandon ==
    /\ tx_status = "pending" => Len(stale) < MaxStale
    /\ stale' = IF tx_status = "pending"
                THEN Append(stale, [dir |-> leg, amt |-> ToBaseUnits(swap_amount),
                                    out |-> expected_out])
                ELSE stale
    /\ tx_status' = "none"

\* SwapEnter going to the quote whatever the amount
SwapEnter_NoZeroCheck ==
    /\ pc = "swap"
    /\ pc' = "quote" /\ UNCHANGED result
    /\ UNCHANGED <<config, chain, counters, leg, swapvars, stats, retry_count,
                   setup, report, swap_calls, legs_confirmed, stranded, tx_status, stale>>

\* start of an attempt: amount to base units, `if amount == 0: return None`
SwapEnter ==
    /\ pc = "swap"
    /\ IF ToBaseUnits(swap_amount) = 0
       THEN Return("None")
       ELSE pc' = "quote" /\ UNCHANGED result
    /\ UNCHANGED <<config, chain, counters, leg, swapvars, stats, retry_count,
                   setup, report, swap_calls, legs_confirmed, stranded, tx_status, stale>>

\* Quote answering for any amount
Quote_AnyAmount ==
    /\ pc = "quote"
    /\ \/ /\ expected_out' = QuoteOut(ToBaseUnits(swap_amount), swap_fee)
          /\ pc' = "submit"
          /\ UNCHANGED <<result, retry_count, attempt>>
       \/ /\ Raise
          /\ UNCHANGED expected_out
    /\ UNCHANGED <<config, chain, counters, leg, swap_amount, elapsed, stats,
                   setup, report, swap_calls, legs_confirmed, stranded, tx_status, stale>>

\* quote request (getAmountsOut / GET /quote): an answer, or an exception.
\* A non-positive amount is never quoted (uint256 encoding, HTTP 400).
Quote ==
    /\ pc = "quote"
    /\ \/ /\ ToBaseUnits(swap_amount) > 0
          /\ expected_out' = QuoteOut(ToBaseUnits(swap_amount), swap_fee)
          /\ pc' = "submit"
          /\ UNCHANGED <<result, retry_count, attempt>>
       \/ /\ Raise
          /\ UNCHANGED expected_out
    /\ UNCHANGED <<config, chain, counters, leg, swap_amount, elapsed, stats,
                   setup, report, swap_calls, legs_confirmed, stranded, tx_status, stale>>

\* what a failed send does: solana returns None, polygon and ultra raise
SendFailed ==
    IF variant = "solana"
    THEN Return("None") /\ UNCHANGED <<retry_count, attempt>>
    ELSE Raise

\* the unresolved transactions left once the node has accepted a new one.
\* polygon: the nonce is get_transaction_count(address), which does not count
\* an unresolved transaction, so the new transaction takes its place.
\* solana, ultra: transactions are independent of each other.
StaleAfterSend(v, st) == IF v = "polygon" THEN <<>> ELSE st

\* build, sign and send the transaction: accepted by the node, or not
Submit ==
    /\ pc = "submit"
    /\ \/ /\ tx_status' = "pending"
          /\ stale' = StaleAfterSend(variant, stale)
          /\ elapsed' = 0
          /\ pc' = "confirm"
          /\ UNCHANGED <<result, retry_count, attempt>>
       \/ /\ SendFailed
          /\ UNCHANGED <<tx_status, elapsed, stale>>
    /\ UNCHANGED <<config, chain, counters, leg, swap_amount, expected_out, stats,
                   setup, report, swap_calls, legs_confirmed, stranded>>

\* the chain settles the pending transaction: executed, or failed
ChainResolve ==
    /\ pc = "confirm" /\ tx_status = "pending"
    /\ \/ /\ CanExecute(leg, ToBaseUnits(swap_amount))
          /\ Execute(leg, ToBaseUnits(swap_amount), expected_out)
          /\ tx_status' = "ok"
       \/ /\ tx_status' = "err"
          /\ UNCHANGED chain
    /\ UNCHANGED <<config, pc, counters, leg, swapvars, result, stats, retry_count,
                   setup, report, swap_calls, legs_confirmed, stranded, stale>>

\* the chain settles a transaction the bot gave up on.  Its effect is on the
\* balances alone, so it is taken where a balance is read next: before a
\* balance query of run and while another transaction waits to be executed.
StaleResolve ==
    /\ stale /= <<>>
    /\ pc \in {"loop", "ret", "confirm"}
    /\ \/ /\ CanExecute(Head(stale).dir, Head(stale).amt)
          /\ Execute(Head(stale).dir, Head(stale).amt, Head(stale).out)
       \/ UNCHANGED chain
    /\ stale' = Tail(stale)
    /\ UNCHANGED <<config, pc, counters, leg, swapvars, result, stats, retry_count,
                   setup, report, swap_calls, legs_confirmed, stranded, tx_status>>

\* Record adding the input amount to the volume twice
Record_DoubleVolume(fee) ==
    /\ total_volume' = total_volume + 2 * swap_amount
    /\ total_fees_paid' = total_fees_paid + fee
    /\ transaction_count' = transaction_count + 1
    /\ transactions' = Append(transactions,
            [from |-> leg, amount_in |-> swap_amount, amount_out |-> expected_out,
             fee |-> fee, attempt |-> attempt + 1])

\* Record with the counter left behind (the record is appended, the count is not)
Record_NoCount(fee) ==
    /\ total_volume' = total_volume + swap_amount
    /\ total_fees_paid' = total_fees_paid + fee
    /\ transaction_count' = transaction_count
    /\ transactions' = Append(transactions,
            [from |-> leg, amount_in |-> swap_amount, amount_out |-> expected_out,
             fee |-> fee, attempt |-> attempt + 1])

\* Record adding the quoted output, not the input, to the volume
Record_VolumeOut(fee) ==
    /\ total_volume' = total_volume + ToUi(expected_out)
    /\ total_fees_paid' = total_fees_paid + fee
    /\ transaction_count' = transaction_count + 1
    /\ transactions' = Append(transactions,
            [from |-> leg, amount_in |-> swap_amount, amount_out |-> expected_out,
             fee |-> fee, attempt |-> attempt + 1])

\* "Update statistics" and "Record transaction" of the swap call
Record(fee) ==
    /\ total_volume' = total_volume + swap_amount
    /\ total_fees_paid' = total_fees_paid + fee
    /\ transaction_count' = transaction_count + 1
    /\ transactions' = Append(transactions,
            [from |-> leg, amount_in |-> swap_amount, amount_out |-> expected_out,
             fee |-> fee, attempt |-> attempt + 1])

\* does the swap call take this settled transaction for a success?
\* polygon: receipt['status'] == 1.  solana, ultra: status.confirmation_status is set.
CountsAsConfirmed(v, st) == IF v = "polygon" THEN st = "ok" ELSE st \in {"ok", "err"}

\* polygon: wait_for_transaction_receipt(timeout=120), then the status check
WaitReceipt ==
    /\ pc = "confirm" /\ variant = "polygon"
    /\ \/ /\ CountsAsConfirmed(variant, tx_status)
          /\ \E fee \in FeeChoices(variant) : Record(fee)
          /\ legs_confirmed' = legs_confirmed + 1
          /\ Return("tuple")
          /\ tx_status' = "none"
          /\ UNCHANGED stale
       \/ /\ tx_status = "err"
          /\ Return("None")
          /\ tx_status' = "none"
          /\ UNCHANGED <<stats, legs_confirmed, stale>>
       \/ /\ Return("None")
          /\ Abandon
          /\ UNCHANGED <<stats, legs_confirmed>>
    /\ UNCHANGED <<config, chain, counters, leg, swapvars, retry_count,
                   setup, report, swap_calls, stranded>>

\* Poll recording the swap and then reporting it as failed
Poll_RecordThenFail ==
    /\ pc = "confirm" /\ variant /= "polygon"
    /\ elapsed < PollBudget
    /\ \/ /\ CountsAsConfirmed(variant, tx_status)
          /\ \E fee \in FeeChoices(variant) : Record(fee)
          /\ legs_confirmed' = legs_confirmed + 1
          /\ Return("None")
          /\ tx_status' = "none"
          /\ UNCHANGED elapsed
       \/ /\ elapsed' = elapsed + 1
          /\ UNCHANGED <<stats, legs_confirmed, result, pc, tx_status>>
    /\ UNCHANGED <<config, chain, counters, leg, swap_amount, attempt, expected_out,
                   retry_count, setup, report, swap_calls, stranded, stale>>

\* solana, ultra: one iteration of the polling loop
Poll ==
    /\ pc = "confirm" /\ variant /= "polygon"
    /\ elapsed < PollBudget
    /\ \/ /\ CountsAsConfirmed(variant, tx_status)
          /\ \E fee \in FeeChoices(variant) : Record(fee)
          /\ legs_confirmed' = legs_confirmed + 1
          /\ Return("tuple")
          /\ tx_status' = "none"
          /\ UNCHANGED elapsed
       \/ /\ elapsed' = elapsed + 1
          /\ UNCHANGED <<stats, legs_confirmed, result, pc, tx_status>>
    /\ UNCHANGED <<config, chain, counters, leg, swap_amount, attempt, expected_out,
                   retry_count, setup, report, swap_calls, stranded, stale>>

\* TimedOut returning the success tuple in both polling variants
TimedOut_Tuple == Return("tuple") /\ UNCHANGED <<retry_count, attempt>>

\* what the swap call does when the polling loop runs out:
\* solana returns (signature, expected_out, 0.000005); ultra raises
TimedOut ==
    IF variant = "solana"
    THEN Return("tuple") /\ UNCHANGED <<retry_count, attempt>>
    ELSE Raise

\* solana, ultra: the polling loop ran out of time
PollTimeout ==
    /\ pc = "confirm" /\ variant /= "polygon"
    /\ elapsed >= PollBudget
    /\ TimedOut
    /\ Abandon
    /\ UNCHANGED <<config, chain, counters, leg, swap_amount, expected_out, elapsed,
                   stats, setup, report, swap_calls, legs_confirmed, stranded>>

Next ==
    \/ Startup
    \/ ApproveA
    \/ ApproveB
    \/ CycleBegin
    \/ LegReturn
    \/ Leg2QueryRaises
    \/ GenerateReport
    \/ SwapEnter
    \/ Quote
    \/ Submit
    \/ ChainResolve
    \/ StaleResolve
    \/ WaitReceipt
    \/ Poll
    \/ PollTimeout

Spec == Init /\ [][Next]_vars

\* ------------------------------------------- the always-succeeding gateway
\* A run against a gateway and an RPC node that never fail: every balance
\* query answers with the balance, every approval, quote and submission
\* succeeds, and every transaction is executed and seen confirmed by the
\* first look at its status.
GatewaySucceeds ==
    /\ pc' \notin {"aborted", "returned"}
    /\ result' /= "None"
    /\ retry_count' = retry_count
    /\ failed_cycles' = failed_cycles
    /\ tx_status' /= "err"
    /\ elapsed' = 0
    /\ stale' = <<>>
    /\ swap_calls' /= swap_calls => ToBaseUnits(swap_amount') > 0
    /\ pc' = "done" => capital_lost' = initial_usdc_balance - ToUi(balA)

\* run arguments with a positive amount, a starting balance that passes the
\* startup check
InitSucceeding ==
    InitWith(1..MockCycles,
             {f \in FixedAmounts : f > 0},
             {b \in StartBalances : ToUi(b[1]) >= MIN_START_BALANCE})

NextSucceeding ==
    \/ Startup /\ GatewaySucceeds
    \/ ApproveA /\ GatewaySucceeds
    \/ ApproveB /\ GatewaySucceeds
    \/ CycleBegin /\ GatewaySucceeds
    \/ LegReturn /\ GatewaySucceeds
    \/ GenerateReport /\ GatewaySucceeds
    \/ SwapEnter /\ GatewaySucceeds
    \/ Quote /\ GatewaySucceeds
    \/ Submit /\ GatewaySucceeds
    \/ ChainResolve /\ GatewaySucceeds
    \/ WaitReceipt /\ GatewaySucceeds
    \/ Poll /\ GatewaySucceeds

SpecSucceeding == InitSucceeding /\ [][NextSucceeding]_vars

\* ----------------------------------------------------------- long runs
\* Runs long enough to come by the progress summaries.  The RPC node always
\* answers and the chain executes and confirms what is submitted at once;
\* the gateway refuses a quote when it likes, and refuses every quote once
\* LongRunRecords swaps are recorded.
OnlyQuotesFail ==
    /\ pc' \notin {"aborted", "returned"}
    /\ tx_status' /= "err"
    /\ elapsed' = 0
    /\ stale' = <<>>
    /\ pc = "submit" => pc' = "confirm"
    /\ (pc = "quote" /\ pc' = "submit") => Len(transactions) < LongRunRecords
    /\ pc' = "done" => capital_lost' = initial_usdc_balance - ToUi(balA)

InitLongRun ==
    InitWith({PROGRESS_EVERY, LongRunCycles}, {10 * ToUi(DECIMALS)}, {<<DECIMALS, 0>>})

NextLongRun ==
    \/ Startup /\ OnlyQuotesFail
    \/ ApproveA /\ OnlyQuotesFail
    \/ ApproveB /\ OnlyQuotesFail
    \/ CycleBegin /\ OnlyQuotesFail
    \/ LegReturn /\ OnlyQuotesFail
    \/ GenerateReport /\ OnlyQuotesFail
    \/ SwapEnter /\ OnlyQuotesFail
    \/ Quote /\ OnlyQuotesFail
    \/ Submit /\ OnlyQuotesFail
    \/ ChainResolve /\ OnlyQuotesFail
    \/ WaitReceipt /\ OnlyQuotesFail
    \/ Poll /\ OnlyQuotesFail

SpecLongRun == InitLongRun /\ [][NextLongRun]_vars

\* ------------------------------------------------------------- progress
\* Every external call of the bot returns and the interpreter goes on to the
\* next statement; the chain settles what was submitted to it.
SpecFair == Init /\ [][Next]_vars /\ WF_vars(Next)

\* ------------------------------------------------- external interruption
\* Interrupt writing the report on its way out
Interrupt_Report ==
    /\ pc \in {"start", "approve_a", "approve_b", "loop",
               "swap", "quote", "submit", "confirm", "ret"}
    /\ pc' = "interrupted"
    /\ reports' = reports + 1
    /\ UNCHANGED <<config, chain, counters, leg, swapvars, result, stats,
                   retry_count, setup, capital_lost, progress_reports, swap_calls,
                   legs_confirmed, stranded,
                   tx_status, stale>>

\* KeyboardInterrupt while run is executing: no handler in run or in the
\* swap call catches it (`except Exception`), main prints "Bot stopped by
\* user" and the process ends
Interrupt ==
    /\ pc \in {"start", "approve_a", "approve_b", "loop",
               "swap", "quote", "submit", "confirm", "ret"}
    /\ pc' = "interrupted"
    /\ UNCHANGED <<config, chain, counters, leg, swapvars, result, stats,
                   retry_count, setup, report, swap_calls, legs_confirmed, stranded,
                   tx_status, stale>>

NextInterruptible ==
    \/ Next
    \/ Interrupt

SpecInterruptible == Init /\ [][NextInterruptible]_vars

\* ----------------------------------------------------------------- claims
RECURSIVE SumAmountIn(_)
SumAmountIn(seq) == IF seq = <<>> THEN 0 ELSE Head(seq).amount_in + SumAmountIn(Tail(seq))

\* C1: in every reachable state of every variant, transaction_count equals
\* the length of the transactions list.
C1_CountIsLength == transaction_count = Len(transactions)

\* a state after a failed leg, a retry and two recorded swaps
C1_Witness == transaction_count = 2 /\ failed_cycles = 1 /\ retry_count > 0

\* C2: in every reachable state total_volume equals the sum of amount_in
\* over the records of the transactions list.
C2_VolumeIsSum == total_volume = SumAmountIn(transactions)

\* two records of different input amounts are in the list
C2_Witness ==
    /\ Len(transactions) >= 2
    /\ transactions[1].amount_in /= transactions[2].amount_in
    /\ total_volume > 0

\* C3 (as stated): when run has completed its cycles, transaction_count
\* equals 2 * successful_cycles.
C3_CountIsTwicePerCycle == pc = "done" => transaction_count = 2 * successful_cycles

\* C3 (amended): when run has completed, every failed cycle has recorded at
\* most one swap and every successful cycle at most two, and in polygon-bot
\* and solana-bot-ultra every successful cycle has recorded exactly two.
C3_CountBounds ==
    pc = "done" =>
        /\ transaction_count <= 2 * successful_cycles + failed_cycles
        /\ variant /= "solana" => transaction_count >= 2 * successful_cycles

\* a finished run with one failed cycle that recorded its leg 1 and one successful cycle
C3_Witness ==
    /\ pc = "done" /\ variant /= "solana"
    /\ successful_cycles = 1 /\ failed_cycles = 1 /\ transaction_count = 3

\* C4: a cycle is counted successful iff both of its legs were confirmed
\* swaps, and every other cycle is counted failed.
C4_SuccessIffBothConfirmed ==
    [][/\ successful_cycles' = successful_cycles + 1 => legs_confirmed' = 2
       /\ failed_cycles' = failed_cycles + 1 => legs_confirmed' < 2
       /\ i' = i + 1 =>
            successful_cycles' + failed_cycles' = successful_cycles + failed_cycles + 1]_vars

\* the step in which the bounded wait for a confirmation runs out
TimeoutStep ==
    /\ pc = "confirm" /\ pc' /= "confirm"
    /\ IF variant = "polygon" THEN tx_status = "pending" ELSE elapsed >= PollBudget

\* C5: in every variant a submitted transaction whose confirmation does not
\* arrive within the bounded wait is never returned as a succeeded swap.
C5_TimeoutIsFailure == [][TimeoutStep => result' /= "tuple"]_vars

\* C6: with a gateway on which every swap attempt fails (no swap is ever
\* confirmed or executed), a finished run has successful_cycles = 0 and
\* failed_cycles = num_cycles, and has written its report.
C6_AllFail ==
    (pc = "done" /\ transaction_count = 0 /\ executed = 0) =>
        (successful_cycles = 0 /\ failed_cycles = num_cycles /\ reports = 1)

\* C7: once the startup checks have passed, a run that has ended has executed
\* exactly num_cycles iterations, each counted successful or failed.
C7_AllIterations ==
    (started /\ pc \in {"done", "aborted", "returned"}) =>
        (i = num_cycles /\ successful_cycles + failed_cycles = num_cycles)

\* C8: once the startup checks have passed, no failure during a cycle aborts
\* the run before the report step.
C8_NoAbortInLoop == ~(started /\ pc = "aborted" /\ i < num_cycles)

\* C9: with a starting balance of asset A below 1.0 the run never gets past
\* the startup check: no cycle, no swap call, no gateway step, no report, and
\* the statistics keep their initial values.
C9_FailFast ==
    (executed = 0 /\ ToUi(balA) < ToUi(DECIMALS)) =>
        /\ pc \in {"start", "returned", "aborted"}
        /\ ~started /\ i = 0 /\ swap_calls = 0 /\ reports = 0
        /\ total_volume = 0 /\ transaction_count = 0 /\ transactions = <<>>

\* run has returned at the startup check with asset A below the minimum
C9_Witness == pc = "returned" /\ ToUi(balA) < ToUi(DECIMALS) /\ initial_usdc_balance = 0

\* a step in which an attempt of the swap call fails with an exception
AttemptFailedStep ==
    /\ pc \in {"quote", "submit", "confirm"}
    /\ pc' \in {"swap", "ret"}
    /\ result' /= "tuple"

\* C10: in solana-bot-ultra a swap call makes at most 3 attempts: a failed
\* attempt before the third is followed by the next attempt, the third failed
\* attempt returns None to the cycle loop, and no fourth attempt is made.
C10_AtMostThreeAttempts ==
    [][variant = "ultra" =>
        /\ attempt' \in 0..2
        /\ attempt' /= attempt => (attempt' = attempt + 1 \/ attempt' = 0)
        /\ (AttemptFailedStep /\ attempt < 2) =>
                (attempt' = attempt + 1 /\ pc' = "swap" /\ result' = "none")
        /\ (AttemptFailedStep /\ attempt = 2) => (pc' = "ret" /\ result' = "None")]_vars

\* the third attempt of a swap call has failed and the call has returned None
C10_Witness ==
    /\ variant = "ultra" /\ pc = "ret" /\ result = "None"
    /\ attempt = 2 /\ retry_count = 2

\* the step in which run issues a swap call
SwapCallStep == swap_calls' = swap_calls + 1

\* the step in which the swap call returns a success tuple to run
SwapSucceedsStep == pc /= "ret" /\ pc' = "ret" /\ result' = "tuple"

\* C11: in solana-bot-ultra a swap call starts at attempt 1, retry_count
\* grows by exactly 1 with each further attempt and in no other step (k
\* attempts: + (k - 1), whether the call succeeds or gives up), and a swap
\* that succeeds on its k-th attempt appends a record with attempt = k.
C11_RetriesAreAttemptsLessOne ==
    [][variant = "ultra" =>
        /\ SwapCallStep => attempt' = 0
        /\ retry_count' = retry_count + (IF attempt' = attempt + 1 THEN 1 ELSE 0)
        /\ AttemptFailedStep => (retry_count' - attempt' = retry_count - attempt)
        /\ SwapSucceedsStep =>
                /\ attempt' = attempt
                /\ Len(transactions') = Len(transactions) + 1
                /\ transactions'[Len(transactions')].attempt = attempt + 1]_vars

\* the first swap call of a run failed twice and succeeded on its third attempt
C11_Witness ==
    /\ variant = "ultra" /\ pc = "ret" /\ result = "tuple" /\ swap_calls = 1
    /\ retry_count = 2 /\ Len(transactions) = 1 /\ transactions[1].attempt = 3

\* C12: in every variant, both sizing modes and both legs, the amount passed
\* to a swap call is at most the balance of the input asset that run queried
\* right before the call, and in fixed-amount mode the leg-1 amount is
\* min(fixed_amount, queried balance of A).
C12_SizeWithinBalance ==
    [][SwapCallStep =>
        \E queried \in QueryResults(variant, IF leg' = 1 THEN balA ELSE balB) :
            /\ swap_amount' <= queried
            /\ (leg' = 1 /\ ~use_full_balance) =>
                    swap_amount' = Min(fixed_amount, queried)]_vars

\* fixed amount 10 requested with a balance of 1.0: the leg-1 call gets 1.0
C12_Witness ==
    /\ pc = "swap" /\ leg = 1 /\ ~use_full_balance
    /\ fixed_amount = 10 * ToUi(DECIMALS)
    /\ fixed_amount > ToUi(balA)
    /\ swap_amount = ToUi(balA) /\ swap_amount = ToUi(DECIMALS)

ConfirmedStep == legs_confirmed' = legs_confirmed + 1

C15_Sequential ==
    [][/\ tx_status' /= "none" => pc' = "confirm"
       /\ pc' = "quote" => (pc = "swap" /\ tx_status = "none")
       /\ SwapCallStep =>
            /\ tx_status = "none"
            /\ leg' = 1 => (pc = "loop" /\ leg = 0 /\ result = "none")
            /\ leg' = 2 => (pc = "ret" /\ leg = 1 /\ result = "tuple")
       /\ i' /= i =>
            /\ i' = i + 1 /\ pc' = "loop" /\ tx_status = "none"
            /\ pc = "ret" \/ (pc = "loop" /\ leg = 0)]_vars

\* leg 2 waits for its confirmation after leg 1 has returned its result
C15_Witness ==
    /\ pc = "confirm" /\ leg = 2 /\ tx_status = "pending"
    /\ transaction_count = 1 /\ swap_calls = 2

\* C16: a B-to-A swap is called only as leg 2, from the return of a leg 1
\* that succeeded; when leg 2 has failed the cycle is counted failed, and the
\* next swap call, from the top of the loop, is an A-to-B leg 1.
C16_NoCompensation ==
    [][/\ (SwapCallStep /\ leg' = 2) => (pc = "ret" /\ leg = 1 /\ result = "tuple")
       /\ (pc = "ret" /\ leg = 2 /\ result = "None" /\ pc' /= pc) =>
            (pc' = "loop" /\ i' = i + 1 /\ failed_cycles' = failed_cycles + 1
             /\ swap_calls' = swap_calls)
       /\ (SwapCallStep /\ pc = "loop") => leg' = 1]_vars

\* leg 1 of the first cycle was executed, leg 2 failed and asset B was left
\* where it was; the next call is leg 1 of the second cycle
C16_Witness ==
    /\ pc = "swap" /\ leg = 1 /\ i = 1 /\ failed_cycles = 1 /\ swap_calls = 3
    /\ transaction_count = 1 /\ executed = 1 /\ balB > start_b

\* the step that runs the top of the loop body: the balance query of asset
\* A, the dust check and, past it, the leg-1 call
CycleBeginStep == pc = "loop" /\ i < num_cycles /\ (pc' /= pc \/ i' /= i) /\ pc' /= "aborted"

\* the cycle is counted failed at the dust check: no gateway call, nothing
\* else changes, the loop goes on
DustOutcome ==
    /\ pc' = "loop" /\ i' = i + 1
    /\ failed_cycles' = failed_cycles + 1
    /\ successful_cycles' = successful_cycles
    /\ swap_calls' = swap_calls
    /\ UNCHANGED <<stats, retry_count, chain, tx_status, report>>

\* C17: in a cycle where the queried balance of asset A is below the dust
\* threshold (0.1 in polygon-bot and solana-bot, 0.01 in solana-bot-ultra) no
\* gateway call is made, failed_cycles grows by exactly 1, the statistics
\* are unchanged and the loop continues; at or above the threshold leg 1 is
\* called.
C17_DustCycleFails ==
    [][CycleBeginStep =>
        \E queried \in QueryResults(variant, balA) :
            IF queried < (IF variant = "ultra" THEN ToUi(DECIMALS) \div 100
                                               ELSE ToUi(DECIMALS) \div 10)
            THEN DustOutcome
            ELSE SwapCallStep /\ leg' = 1 /\ UNCHANGED counters]_vars

\* polygon-bot: the second cycle found asset A below 0.1 after leg 1 of the
\* first cycle had swapped it away
C17_Witness ==
    /\ variant = "polygon" /\ pc = "loop" /\ i = 2 /\ failed_cycles = 2
    /\ swap_calls = 2 /\ transaction_count = 1
    /\ ToUi(balA) < ToUi(DECIMALS) \div 10

CycleEndStep == i' = i + 1

\* C19 (as stated): a cycle counted successful has added two records, a
\* cycle counted failed has added none.
C19_PerCycleUpdate ==
    [][CycleEndStep =>
        /\ successful_cycles' = successful_cycles + 1 => legs_confirmed' = 2
        /\ failed_cycles' = failed_cycles + 1 => legs_confirmed' = 0]_vars

\* C19 (amended): the statistics are updated per confirmed swap, inside the
\* swap call (one record, transaction_count + 1, volume and fee of that
\* swap), and not when the cycle is counted; a cycle counted failed has
\* added no record or the one of its leg 1; a cycle counted successful has
\* added two records in polygon-bot and solana-bot-ultra and at most two in
\* solana-bot.
C19_PerSwapUpdate ==
    [][/\ CycleEndStep =>
            /\ UNCHANGED stats
            /\ failed_cycles' = failed_cycles + 1 => legs_confirmed' \in {0, 1}
            /\ successful_cycles' = successful_cycles + 1 =>
                    IF variant = "solana" THEN legs_confirmed' \in 0..2
                                          ELSE legs_confirmed' = 2
       /\ transaction_count' /= transaction_count =>
            /\ ConfirmedStep /\ ~CycleEndStep
            /\ transaction_count' = transaction_count + 1
            /\ Len(transactions') = Len(transactions) + 1
            /\ total_fees_paid' =
                    total_fees_paid + transactions'[Len(transactions')].fee]_vars

\* a cycle has been counted failed after its leg 1 was recorded
C19_Witness ==
    /\ pc = "loop" /\ i = 1 /\ failed_cycles = 1 /\ legs_confirmed = 1
    /\ transaction_count = 1 /\ Len(transactions) = 1 /\ total_volume > 0

\* C20: in every variant, when the swap call leaves the confirmation wait
\* of a transaction that the chain has settled with a failure status, it
\* does not return a success tuple and the statistics are unchanged.
C20_FailureStatusIsFailure ==
    [][(pc = "confirm" /\ tx_status = "err" /\ pc' /= "confirm") =>
            (result' /= "tuple" /\ UNCHANGED stats)]_vars

\* C21: the report is written at most once per run, in the step that follows
\* the last iteration of the loop; an interruption of run writes no report
\* and leaves the statistics, the cycle counters and the balances as they
\* were at that moment.
C21_ReportOnceAtEnd ==
    [][/\ reports' \in {0, 1}
       /\ reports' /= reports =>
            (pc = "loop" /\ i = num_cycles /\ pc' = "done" /\ reports' = 1)
       /\ reports' = 1 => (pc' = "done" /\ i' = num_cycles)
       /\ pc' = "interrupted" =>
            (reports' = 0 /\ UNCHANGED <<stats, counters, chain, retry_count>>)]_vars

\* a run interrupted in its loop after leg 1 was executed: the capital is in
\* asset B, the swap is in the statistics, no report exists
C21_Witness ==
    /\ pc = "interrupted" /\ started /\ i < num_cycles /\ reports = 0
    /\ transaction_count = 1 /\ executed = 1 /\ balB > start_b

\* C22: the confirmation polls of an attempt and the attempts of a swap call
\* are bounded, every swap call returns to run, and every run ends (report
\* written, startup return, or abort), whatever the gateway answers, as long
\* as each external call returns.
C22_RunTerminates ==
    /\ [](elapsed <= PollBudget /\ attempt < MAX_RETRIES)
    /\ (pc \in {"swap", "quote", "submit", "confirm"}) ~> (pc = "ret")
    /\ <>(pc \in {"done", "returned", "aborted"})

\* solana-bot-ultra has finished a run in which both cycles used up all
\* attempts of leg 1
C22_Witness ==
    /\ variant = "ultra" /\ pc = "done" /\ num_cycles = 2
    /\ failed_cycles = 2 /\ retry_count = 4 /\ swap_calls = 2

\* C23: a progress summary is printed at the end of every cycle whose
\* 1-based index is a multiple of K (10 in polygon-bot and solana-bot, 50 in
\* solana-bot-ultra), whether the cycle is counted successful or failed.
C23_ProgressEveryK ==
    [][(CycleEndStep /\ i' % (IF variant = "ultra" THEN 50 ELSE 10) = 0) =>
            progress_reports' = progress_reports + 1]_vars

\* C24: in the two Solana variants a balance query never raises: where it
\* fails it reads as 0.  At startup run then returns as insufficient capital;
\* at the top of a cycle the cycle is counted failed at the dust check; before
\* leg 2 the swap call gets amount 0 and returns failure, and the cycle is
\* counted failed.  The run is never aborted.
C24_QueryErrorReadsAsZero ==
    [][variant /= "polygon" =>
        /\ pc' /= "aborted"
        /\ (pc = "start" /\ pc' /= pc) =>
                \/ pc' = "returned" /\ ~started' /\ initial_usdc_balance' = 0
                \/ /\ pc' = "loop" /\ ToUi(balA) >= MIN_START_BALANCE
                   /\ initial_usdc_balance' = ToUi(balA)
        /\ (CycleBeginStep /\ ~SwapCallStep) => DustOutcome
        /\ (CycleBeginStep /\ SwapCallStep) => ToUi(balA) >= DustThreshold(variant)
        /\ (SwapCallStep /\ leg' = 2) =>
                swap_amount' \in {Leg2Amount(variant, ToUi(balB)), 0}
        /\ (pc = "swap" /\ swap_amount = 0 /\ pc' /= pc) =>
                (pc' = "ret" /\ result' = "None")
        /\ (pc = "ret" /\ result = "None" /\ pc' /= pc) =>
                (pc' = "loop" /\ i' = i + 1 /\ failed_cycles' = failed_cycles + 1)]_vars

\* a Solana variant has counted a cycle failed at the dust check while the
\* account holds 1.0 of asset A: the balance query failed
C24_Witness ==
    /\ variant /= "polygon" /\ pc = "loop" /\ i = 1 /\ failed_cycles = 1
    /\ swap_calls = 0 /\ ToUi(balA) >= MIN_START_BALANCE /\ started

\* C25: in every variant the statistics change only in a step in which the
\* swap call returns success, so a swap call that returns failure has left
\* total_volume, total_fees_paid, transaction_count and transactions as they
\* were; retry_count changes in solana-bot-ultra only.
C25_FailureLeavesStats ==
    [][/\ stats' /= stats => (pc = "confirm" /\ pc' = "ret" /\ result' = "tuple")
       /\ (result' = "None" /\ result /= "None") => UNCHANGED stats
       /\ (pc = "ret" /\ result = "None") => UNCHANGED stats
       /\ (pc' = "ret" /\ result' = "None" /\ leg' = 1) => legs_confirmed' = 0
       /\ (pc' = "ret" /\ result' = "None" /\ leg' = 2) => legs_confirmed' <= 1
       /\ retry_count' /= retry_count => variant = "ultra"]_vars

\* solana-bot-ultra: leg 2 has returned failure after three attempts; the
\* record of leg 1 is all the statistics hold
C25_Witness ==
    /\ variant = "ultra" /\ pc = "ret" /\ result = "None" /\ leg = 2
    /\ attempt = 2 /\ retry_count = 2 /\ transaction_count = 1
    /\ Len(transactions) = 1 /\ total_volume = transactions[1].amount_in

\* transactions of the runner that the chain has not settled yet
Unresolved == Len(stale) + (IF tx_status = "pending" THEN 1 ELSE 0)

\* C26: at any time at most one transaction submitted by the runner is
\* unresolved on chain: no transaction is submitted while an earlier one may
\* still be executed.
C26_OneUnresolved == Unresolved <= 1

\* C27: in polygon-bot and solana-bot in full-balance mode, once a cycle
\* has had leg 1 succeed and leg 2 fail, every later cycle is counted as
\* failed at the dust check and issues no gateway call, and the balances stay
\* as they are until the report.
C27_StrandedStaysStranded ==
    [][(/\ stranded
        /\ variant \in {"polygon", "solana"}
        /\ use_full_balance
        /\ CycleBeginStep) => DustOutcome]_vars

\* C28: in polygon-bot the approval of asset A is asked for after the
\* balance check, that of asset B after A's has returned True, and the loop
\* is entered only after B's has returned True; no swap call is issued
\* before that, and a run that has returned early has issued no swap call,
\* counted no cycle and written no report.
C28_ApprovalsBeforeSwaps ==
    [][variant = "polygon" =>
        /\ (pc' = "approve_a" /\ pc /= "approve_a") => pc = "start"
        /\ (pc' = "approve_b" /\ pc /= "approve_b") => pc = "approve_a"
        /\ started' /= started => (pc = "approve_b" /\ pc' = "loop" /\ started')
        /\ (pc \in {"start", "approve_a", "approve_b"} /\ pc' /= pc)
              => (pc' = "loop") = started'
        /\ SwapCallStep => started
        /\ pc' = "returned" =>
              /\ pc \in {"start", "approve_a", "approve_b"}
              /\ ~started'
              /\ swap_calls' = 0 /\ transactions' = <<>> /\ executed' = 0
              /\ i' = 0 /\ successful_cycles' = 0 /\ failed_cycles' = 0
              /\ reports' = 0 /\ progress_reports' = 0]_vars

\* polygon-bot had the balance to start, an approval returned False, the
\* run returned
C28_Witness ==
    /\ variant = "polygon" /\ pc = "returned"
    /\ initial_usdc_balance >= MIN_START_BALANCE
    /\ swap_calls = 0 /\ reports = 0

C30_ZeroAmountFailsAtOnce ==
    [][/\ (pc = "swap" /\ ToBaseUnits(swap_amount) = 0 /\ pc' /= pc) =>
             /\ pc' = "ret" /\ result' = "None"
             /\ attempt = 0 /\ attempt' = 0
             /\ retry_count' = retry_count
             /\ UNCHANGED <<stats, chain, tx_status, stale>>
       /\ pc' \in {"quote", "submit", "confirm"} => ToBaseUnits(swap_amount') /= 0
       /\ (SwapCallStep /\ leg' = 2 /\ balB = 0) => swap_amount' = 0]_vars

\* solana-bot-ultra: leg 2 was called with the balance of B at zero and has
\* returned None on its first attempt
C30_Witness ==
    /\ variant = "ultra" /\ pc = "ret" /\ leg = 2 /\ result = "None"
    /\ balB = 0 /\ swap_amount = 0 /\ attempt = 0 /\ retry_count = 0

====
